---- MODULE Spec2Model ----
(***************************************************************************)
(* Zawadi Court welfare bookkeeping: the derivation engine (debt / YTD /   *)
(* payment status), the numeric parser, and the request approval workflow  *)
(* of the CSV-backed app (src/app.py) and of the Postgres-backed app       *)
(* (src/streamlit_app.py with src/zawadi_db.py).                           *)
(***************************************************************************)
EXTENDS Integers, Sequences, FiniteSets, TLC

VARIABLES
    \* ---- pure-function harness (safe_convert_to_float, derivation engine)
    arg,            \* the arguments of the call under study
    call,           \* name of the function that was called, "" before the call
    result,         \* what the call returned (or that it raised)
    \* ---- approval workflow
    backend,        \* "csv" (src/app.py) or "db" (src/streamlit_app.py)
    store,          \* the persisted tables: CSV files or Postgres tables
    data,           \* per session: the dict returned by load_data() in this run
    pc,             \* per session: "idle" (between script runs) or "run"
    auth,           \* per session: st.session_state.treasurer_authenticated
    last_activity,  \* per session: st.session_state.last_activity
    now,            \* wall clock, seconds
    nextId,         \* identity given to the next submitted request
    event,          \* the last handler that ran, with its inputs
    \* ---- environment of the applications
    today,          \* the calendar: [month, day] of datetime.now()
    online,         \* whether the Postgres server can be reached
    reminded,       \* per session: st.session_state.last_reminder_sent
    outbox          \* the reminder emails handed to the SMTP server

pureVars == <<arg, call, result>>
envVars  == <<today, online, reminded, outbox>>
flowVars == <<backend, store, data, pc, auth, last_activity, now, nextId, event, envVars>>
vars == <<arg, call, result, backend, store, data, pc, auth, last_activity,
          now, nextId, event, today, online, reminded, outbox>>

(***************************************************************************)
(* Values.  A cell of a row is missing (None / NaN), a number, or text     *)
(* (a sequence of one-character strings, so that parsing can be modelled). *)
(* A Python float is finite, NaN or +-infinity.                            *)
(***************************************************************************)
NA       == [t |-> "na",  v |-> <<>>]
Num(n)   == [t |-> "num", v |-> n]
Str(s)   == [t |-> "str", v |-> s]
Txt(s)   == [t |-> "txt", v |-> s]
Absent   == [t |-> "absent", v |-> <<>>]

Fin(n)   == [k |-> "fin", v |-> n]
NaN      == [k |-> "nan", v |-> 0]
Inf(sg)  == [k |-> "inf", v |-> sg]
Raised   == [k |-> "raise", v |-> 0]

DigitChars == <<"0", "1", "2", "3", "4", "5", "6", "7", "8", "9">>
IsDigit(c) == \E i \in 1..10 : DigitChars[i] = c
DigitVal(c) == (CHOOSE i \in 1..10 : DigitChars[i] = c) - 1

RECURSIVE DigitsValue(_)
DigitsValue(s) ==
    IF s = <<>> THEN 0
    ELSE 10 * DigitsValue(SubSeq(s, 1, Len(s) - 1)) + DigitVal(s[Len(s)])

RECURSIVE ToDigits(_)
ToDigits(n) ==
    IF n < 10 THEN <<DigitChars[n + 1]>>
    ELSE ToDigits(n \div 10) \o <<DigitChars[(n % 10) + 1]>>

\* str(value) for the values a cell can hold
PyStr(value) ==
    IF value.t = "num"
    THEN IF value.v < 0 THEN <<"-">> \o ToDigits(-value.v) ELSE ToDigits(value.v)
    ELSE value.v

IsSpace(c) == c = " "

RECURSIVE LStrip(_)
LStrip(s) == IF s # <<>> /\ IsSpace(Head(s)) THEN LStrip(Tail(s)) ELSE s

RECURSIVE RStrip(_)
RStrip(s) ==
    IF s # <<>> /\ IsSpace(s[Len(s)]) THEN RStrip(SubSeq(s, 1, Len(s) - 1)) ELSE s

\* str.strip()
Strip(s) == RStrip(LStrip(s))

\* str.replace(',', '')
RemoveCommas(s) == SelectSeq(s, LAMBDA c : c # ",")

\* float(text) on stripped text made of a sign, decimal digits and the words
\* float() accepts; anything else is a ValueError
PyFloat(s) ==
    LET signed == s # <<>> /\ Head(s) \in {"-", "+"}
        body   == IF signed THEN Tail(s) ELSE s
        sg     == IF signed /\ Head(s) = "-" THEN -1 ELSE 1
    IN  IF body # <<>> /\ \A i \in 1..Len(body) : IsDigit(body[i])
        THEN Fin(sg * DigitsValue(body))
        ELSE IF body = <<"N", "A", "N">> THEN NaN
        ELSE IF body = <<"I", "N", "F">> THEN Inf(sg)
        ELSE Raised

\* pd.isna(value)
IsNA(value) == value.t = "na"

safe_convert_to_float(value) ==
    IF IsNA(value) \/ Strip(PyStr(value)) \in {<<>>, <<"-">>, <<" ", "-", " ">>}
    THEN Fin(0)
    ELSE LET r == PyFloat(Strip(RemoveCommas(PyStr(value))))
         IN  IF r.k = "raise" THEN Fin(0) ELSE r

(***************************************************************************)
(* Float arithmetic on the values above (IEEE NaN / infinity rules).       *)
(***************************************************************************)
FAdd(a, b) ==
    IF a.k = "nan" \/ b.k = "nan" THEN NaN
    ELSE IF a.k = "inf" /\ b.k = "inf" THEN (IF a.v = b.v THEN a ELSE NaN)
    ELSE IF a.k = "inf" THEN a
    ELSE IF b.k = "inf" THEN b
    ELSE Fin(a.v + b.v)

FNeg(a) ==
    IF a.k = "fin" THEN Fin(-a.v)
    ELSE IF a.k = "inf" THEN Inf(-a.v)
    ELSE a

\* a <= 0  (False for NaN)
FLeqZero(a) == (a.k = "fin" /\ a.v <= 0) \/ (a.k = "inf" /\ a.v < 0)

\* a == 0
FIsZero(a) == a.k = "fin" /\ a.v = 0
FGtZero(a) == (a.k = "fin" /\ a.v > 0) \/ (a.k = "inf" /\ a.v > 0)

RECURSIVE FSum(_)
FSum(xs) == IF xs = <<>> THEN Fin(0) ELSE FAdd(FSum(SubSeq(xs, 1, Len(xs) - 1)), xs[Len(xs)])

(***************************************************************************)
(* Derivation engine.  A row is a function from the field names it has to  *)
(* cells; rates_df is the sequence of the rate table's rows.               *)
(***************************************************************************)
MONTHS == <<"JAN", "FEB", "MAR", "APR", "MAY", "JUN",
            "JUL", "AUG", "SEP", "OCT", "NOV", "DEC">>

RateField == "Rate Category"
DebtField == "Cumulative Debt (2024 & Prior)"

DEFAULT_RATES == <<[cat |-> "Resident", amount |-> 2000],
                   [cat |-> "Non-Resident", amount |-> 1000],
                   [cat |-> "Special Rate", amount |-> 500]>>

\* DEFAULT_RATES['Resident']
DefaultResidentRate == DEFAULT_RATES[1].amount

\* MONTHS.index(current_month) if current_month in MONTHS else 11
MonthIndex(current_month) ==
    IF \E i \in 1..Len(MONTHS) : MONTHS[i] = current_month
    THEN (CHOOSE i \in 1..Len(MONTHS) : MONTHS[i] = current_month) - 1
    ELSE 11

\* mutant: an unknown category falls back to the table's first rate
calculate_monthly_rate_first_row(row, rates_df) ==
    IF RateField \notin DOMAIN row \/ IsNA(row[RateField])
    THEN DefaultResidentRate
    ELSE LET rate == SelectSeq(rates_df, LAMBDA r : r.cat = row[RateField].v)
         IN  IF rate # <<>> THEN rate[1].amount ELSE rates_df[1].amount

calculate_monthly_rate(row, rates_df) ==
    IF RateField \notin DOMAIN row \/ IsNA(row[RateField])
    THEN DefaultResidentRate
    ELSE LET rate == SelectSeq(rates_df, LAMBDA r : r.cat = row[RateField].v)
         IN  IF rate # <<>> THEN rate[1].amount ELSE DefaultResidentRate

\* mutant: the + 1 for the 0-indexed month is forgotten
calculate_liability_no_plus_one(row, current_month, rates_df) ==
    MonthIndex(current_month) * calculate_monthly_rate(row, rates_df)

calculate_liability(row, current_month, rates_df) ==
    (MonthIndex(current_month) + 1) * calculate_monthly_rate(row, rates_df)

\* mutant: MONTHS[:month_index] leaves the reference month out
calculate_ytd_exclusive(row, current_month) ==
    LET relevant_months == SubSeq(MONTHS, 1, MonthIndex(current_month))
    IN  IF \E i \in 1..Len(relevant_months) : relevant_months[i] \notin DOMAIN row
        THEN Raised
        ELSE FSum([i \in 1..Len(relevant_months) |->
                      safe_convert_to_float(row[relevant_months[i]])])

\* row[month] raises KeyError when the row has no such field
calculate_ytd(row, current_month) ==
    LET relevant_months == SubSeq(MONTHS, 1, MonthIndex(current_month) + 1)
    IN  IF \E i \in 1..Len(relevant_months) : relevant_months[i] \notin DOMAIN row
        THEN Raised
        ELSE FSum([i \in 1..Len(relevant_months) |->
                      safe_convert_to_float(row[relevant_months[i]])])

\* calculate_current_debt without the try / except
calculate_current_debt_no_except(row, current_month, rates_df) ==
    LET cumulative_debt ==
            safe_convert_to_float(IF DebtField \in DOMAIN row THEN row[DebtField] ELSE Num(0))
        additional_liability == calculate_liability(row, current_month, rates_df)
        ytd == calculate_ytd(row, current_month)
    IN  IF ytd.k = "raise" THEN Raised
        ELSE FAdd(FAdd(cumulative_debt, Fin(additional_liability)), FNeg(ytd))

\* try: ... except: return 0
calculate_current_debt(row, current_month, rates_df) ==
    LET cumulative_debt ==
            safe_convert_to_float(IF DebtField \in DOMAIN row THEN row[DebtField] ELSE Num(0))
        additional_liability == calculate_liability(row, current_month, rates_df)
        ytd == calculate_ytd(row, current_month)
    IN  IF ytd.k = "raise" THEN Fin(0)
        ELSE FAdd(FAdd(cumulative_debt, Fin(additional_liability)), FNeg(ytd))

UpToDate   == "Up-to-date"
Behind12   == "1-2 months behind"
BehindMore == ">2 months behind"

\* mutant: months_owed < 2 instead of months_owed <= 2
get_payment_status_strict(row, current_month, rates_df) ==
    LET current_debt == calculate_current_debt(row, current_month, rates_df)
        month_index == MonthIndex(current_month)
    IN  IF FLeqZero(current_debt) THEN UpToDate
        ELSE IF \E i \in 1..(month_index + 1) : MONTHS[i] \notin DOMAIN row
        THEN Raised
        ELSE LET months_owed ==
                     Cardinality({i \in 1..(month_index + 1) :
                                     FIsZero(safe_convert_to_float(row[MONTHS[i]]))})
             IN  IF months_owed < 2 THEN Behind12 ELSE BehindMore

get_payment_status(row, current_month, rates_df) ==
    LET current_debt == calculate_current_debt(row, current_month, rates_df)
        month_index == MonthIndex(current_month)
    IN  IF FLeqZero(current_debt) THEN UpToDate
        ELSE IF \E i \in 1..(month_index + 1) : MONTHS[i] \notin DOMAIN row
        THEN Raised
        ELSE LET months_owed ==
                     Cardinality({i \in 1..(month_index + 1) :
                                     FIsZero(safe_convert_to_float(row[MONTHS[i]]))})
             IN  IF months_owed <= 2 THEN Behind12 ELSE BehindMore

(***************************************************************************)
(* Harness for the pure functions: Init draws the arguments from bounded   *)
(* sets, each action calls one function and records what it returned.      *)
(***************************************************************************)
MaxLen    == 3      \* longest enumerated text handed to safe_convert_to_float
VarMonths == 2      \* months JAN.. whose cells vary independently in a row

Alphabet == {"0", "1", ",", "-", " ", "A", "N", "I", "F"}

RECURSIVE TextsOfLen(_)
TextsOfLen(n) ==
    IF n = 0 THEN {<<>>}
    ELSE {<<c>> \o t : c \in Alphabet, t \in TextsOfLen(n - 1)}

\* the inputs of TestZawadiFunctions.test_safe_convert_to_float
TestTexts == {<<"1", ",", "0", "0", "0">>, <<"5", "0", "0">>, <<>>,
              <<" ", "-", " ">>, <<"A", "B", "C">>}

ParseInputs ==
    {NA, Num(0), Num(1500), Num(-250)}
    \cup {Str(t) : t \in TestTexts}
    \cup {Str(t) : t \in UNION {TextsOfLen(n) : n \in 0..MaxLen}}

MonthCells == {Num(0), Num(3000), Num(-500), Str(<<"1", ",", "0", "0", "0">>),
               Str(<<"N", "A", "N">>), Absent}
TailCells  == {Num(0), Num(2000)}
CategoryCells == {Txt("Special Rate"), Txt("Resident"), Txt(""), NA, Absent}
DebtCells  == {Absent, Num(-3000), Str(<<"5", ",", "0", "0", "0">>)}
RateTables == {DEFAULT_RATES,
               <<[cat |-> "Resident", amount |-> 2500],
                 [cat |-> "Non-Resident", amount |-> 1200]>>}
RefMonths  == {MONTHS[i] : i \in 1..(VarMonths + 1)} \cup {"DEC", "XYZ"}

Fields == {RateField, DebtField} \cup {MONTHS[i] : i \in 1..Len(MONTHS)}

MkRow(cat, debt, cells, tail) ==
    LET pos(f) == CHOOSE i \in 1..Len(MONTHS) : MONTHS[i] = f
        choice == [f \in Fields |->
                      IF f = RateField THEN cat
                      ELSE IF f = DebtField THEN debt
                      ELSE IF pos(f) <= VarMonths THEN cells[pos(f)]
                      ELSE tail]
    IN  [f \in {g \in Fields : choice[g].t # "absent"} |-> choice[f]]

Rows == {MkRow(cat, debt, cells, tail) :
            cat \in CategoryCells, debt \in DebtCells,
            cells \in [1..VarMonths -> MonthCells], tail \in TailCells}

NoArg == [value |-> NA]
NoFlow == [s \in {} |-> 0]

FlowIdle ==
    /\ backend = "none"
    /\ store = NoFlow
    /\ data = NoFlow
    /\ pc = NoFlow
    /\ auth = NoFlow
    /\ last_activity = NoFlow
    /\ now = 0
    /\ nextId = 0
    /\ event = NoFlow
    /\ today = NoFlow
    /\ online = TRUE
    /\ reminded = NoFlow
    /\ outbox = <<>>

\* ---- safe_convert_to_float -------------------------------------------
InitParse ==
    /\ arg \in {[value |-> v] : v \in ParseInputs}
    /\ call = ""
    /\ result = Fin(0)
    /\ FlowIdle

CallSafeConvert ==
    /\ call = ""
    /\ call' = "safe_convert_to_float"
    /\ result' = safe_convert_to_float(arg.value)
    /\ UNCHANGED <<arg, flowVars>>

NextParse == CallSafeConvert

SpecParse == InitParse /\ [][NextParse]_vars

\* ---- derivation engine ------------------------------------------------
InitCalc ==
    /\ arg \in {[row |-> r, month |-> m, rates |-> t] :
                   r \in Rows, m \in RefMonths, t \in RateTables}
    /\ call = ""
    /\ result = Fin(0)
    /\ FlowIdle

CallMonthlyRate ==
    /\ call = ""
    /\ call' = "calculate_monthly_rate"
    /\ result' = calculate_monthly_rate(arg.row, arg.rates)
    /\ UNCHANGED <<arg, flowVars>>

CallLiability ==
    /\ call = ""
    /\ call' = "calculate_liability"
    /\ result' = calculate_liability(arg.row, arg.month, arg.rates)
    /\ UNCHANGED <<arg, flowVars>>

CallYtd ==
    /\ call = ""
    /\ call' = "calculate_ytd"
    /\ result' = calculate_ytd(arg.row, arg.month)
    /\ UNCHANGED <<arg, flowVars>>

CallCurrentDebt ==
    /\ call = ""
    /\ call' = "calculate_current_debt"
    /\ result' = calculate_current_debt(arg.row, arg.month, arg.rates)
    /\ UNCHANGED <<arg, flowVars>>

CallPaymentStatus ==
    /\ call = ""
    /\ call' = "get_payment_status"
    /\ result' = get_payment_status(arg.row, arg.month, arg.rates)
    /\ UNCHANGED <<arg, flowVars>>

NextCalc ==
    \/ CallMonthlyRate
    \/ CallLiability
    \/ CallYtd
    \/ CallCurrentDebt
    \/ CallPaymentStatus

SpecCalc == InitCalc /\ [][NextCalc]_vars

(***************************************************************************)
(* Connecting to Postgres (src/zawadi_db.py): the candidate URLs and the   *)
(* engine probe.  A URL is the sequence of its pieces of text:             *)
(* scheme, user, ":", password, "@", host, ":port/", database and, when    *)
(* there is a query, "?" and the parameters.                               *)
(***************************************************************************)
\* str.lower() on a piece of text
Lower(t) ==
    CASE t = "Amina" -> "amina"
      [] t = "S3cretPW" -> "s3cretpw"
      [] t = "Zawadi" -> "zawadi"
      [] t = "AWS-0.POOLER.SUPABASE.COM" -> "aws-0.pooler.supabase.com"
      [] t = "SSLMODE=disable" -> "sslmode=disable"
      [] t = "options=ProjectRef" -> "options=projectref"
      [] OTHER -> t

lower(u) == [i \in DOMAIN u |-> Lower(u[i])]

\* m in u, for the pieces the code looks for
Contains(u, m) == \E i \in DOMAIN u : u[i] = m

\* u.replace(old, new)
replace(u, old, new) == [i \in DOMAIN u |-> IF u[i] = old THEN new ELSE u[i]]

PoolerHosts == {"aws-0.pooler.supabase.com"}
ConnParams ==
    <<"sslmode=require", "&", "connect_timeout=6", "&", "application_name=zawadi_streamlit",
      "&", "keepalives=1&keepalives_idle=30&keepalives_interval=10&keepalives_count=3">>
SslmodeParams == {"sslmode=disable", "sslmode=require"}

\* add_params(u): "sslmode=" in u is case-sensitive
add_params(u) ==
    LET sep == IF Contains(u, "?") THEN "&" ELSE "?"
    IN  IF \E m \in SslmodeParams : Contains(u, m) THEN u
        ELSE u \o <<sep>> \o ConnParams

\* _build_candidate_urls() for DATABASE_URL = raw (already stripped); <<>> is
\* the empty string
build_candidate_urls(raw) ==
    IF raw = <<>> THEN <<>>
    ELSE LET low  == lower(raw)
             urls == IF \E h \in PoolerHosts : Contains(low, h)
                     THEN IF Contains(low, ":5432/")
                          THEN <<raw, replace(low, ":5432/", ":6543/")>>
                          ELSE IF Contains(low, ":6543/")
                          THEN <<raw, replace(low, ":6543/", ":5432/")>>
                          ELSE <<raw>>
                     ELSE <<raw>>
         IN  [i \in DOMAIN urls |-> add_params(urls[i])]

\* ---- _engine() ---------------------------------------------------------
\* the sleeps after a failed probe, in tenths of a second: [0.2, 0.4, 0.8]
Delays == <<2, 4, 8>>

\* what create_engine(url) + eng.connect() does in one probe: it succeeds,
\* raises OperationalError, or raises something else
ProbeOutcomes == {"ok", "OperationalError", "other"}

NoError == [none |-> TRUE]
ProbeError(c, attempt, what) == [candidate |-> c, attempt |-> attempt, what |-> what]

\* the loops of _engine from candidate c, attempt a
RECURSIVE engine_loop(_, _, _, _, _, _, _)
engine_loop(urls, outcome, c, a, probes, sleeps, last_err) ==
    IF c > Len(urls)
    THEN [k |-> "raise",
          error |-> IF last_err # NoError THEN last_err
                    ELSE ProbeError(0, 0, "No working DB URL"),
          probes |-> probes, sleeps |-> sleeps]
    ELSE IF a > Len(Delays)
    THEN engine_loop(urls, outcome, c + 1, 1, probes, sleeps, last_err)
    ELSE IF outcome[c][a] = "ok"
    THEN [k |-> "engine", url |-> urls[c], candidate |-> c,
          probes |-> probes + 1, sleeps |-> sleeps]
    ELSE IF outcome[c][a] = "OperationalError"
    THEN engine_loop(urls, outcome, c, a + 1, probes + 1, Append(sleeps, Delays[a]),
                     ProbeError(c, a, "OperationalError"))
    ELSE [k |-> "raise", error |-> ProbeError(c, a, "other"),
          probes |-> probes + 1, sleeps |-> sleeps]

\* _engine() without the return inside the loops: the last engine that
\* answered is returned after every candidate was tried
RECURSIVE engine_loop_no_return(_, _, _, _, _, _, _, _)
engine_loop_no_return(urls, outcome, c, a, probes, sleeps, last_err, found) ==
    IF c > Len(urls)
    THEN IF found # 0
         THEN [k |-> "engine", url |-> urls[found], candidate |-> found,
               probes |-> probes, sleeps |-> sleeps]
         ELSE [k |-> "raise",
               error |-> IF last_err # NoError THEN last_err
                         ELSE ProbeError(0, 0, "No working DB URL"),
               probes |-> probes, sleeps |-> sleeps]
    ELSE IF a > Len(Delays)
    THEN engine_loop_no_return(urls, outcome, c + 1, 1, probes, sleeps, last_err, found)
    ELSE IF outcome[c][a] = "ok"
    THEN engine_loop_no_return(urls, outcome, c + 1, 1, probes + 1, sleeps, last_err, c)
    ELSE IF outcome[c][a] = "OperationalError"
    THEN engine_loop_no_return(urls, outcome, c, a + 1, probes + 1,
                               Append(sleeps, Delays[a]),
                               ProbeError(c, a, "OperationalError"), found)
    ELSE [k |-> "raise", error |-> ProbeError(c, a, "other"),
          probes |-> probes + 1, sleeps |-> sleeps]

_engine_no_return(urls, outcome) ==
    IF urls = <<>>
    THEN [k |-> "raise", error |-> ProbeError(0, 0, "DATABASE_URL not set"),
          probes |-> 0, sleeps |-> <<>>]
    ELSE engine_loop_no_return(urls, outcome, 1, 1, 0, <<>>, NoError, 0)

\* _engine() on the candidates urls, outcome[c][a] being what the a-th probe
\* of the c-th candidate does
_engine(urls, outcome) ==
    IF urls = <<>>
    THEN [k |-> "raise", error |-> ProbeError(0, 0, "DATABASE_URL not set"),
          probes |-> 0, sleeps |-> <<>>]
    ELSE engine_loop(urls, outcome, 1, 1, 0, <<>>, NoError)

\* ---- harness: DATABASE_URL values and probe outcomes ---------------------
UrlUsers     == {"postgres", "Amina"}
UrlPasswords == {"secret", "S3cretPW"}
UrlHosts     == {"db.example.org", "aws-0.pooler.supabase.com", "AWS-0.POOLER.SUPABASE.COM"}
UrlPorts     == {":5432/", ":6543/", ":5433/"}
UrlDatabases == {"postgres", "Zawadi"}
UrlQueries   == {<<>>, <<"?", "sslmode=disable">>, <<"?", "SSLMODE=disable">>,
                 <<"?", "options=ProjectRef">>}

MkUrl(user, password, host, port, db, query) ==
    <<"postgresql://", user, ":", password, "@", host, port, db>> \o query

RawUrls ==
    {<<>>} \cup {MkUrl(u, pw, h, pt, d, q) :
                    u \in UrlUsers, pw \in UrlPasswords, h \in UrlHosts,
                    pt \in UrlPorts, d \in UrlDatabases, q \in UrlQueries}

InitUrls ==
    /\ arg \in {[url |-> u] : u \in RawUrls}
    /\ call = ""
    /\ result = Fin(0)
    /\ FlowIdle

CallBuildCandidateUrls ==
    /\ call = ""
    /\ call' = "_build_candidate_urls"
    /\ result' = build_candidate_urls(arg.url)
    /\ UNCHANGED <<arg, flowVars>>

NextUrls == CallBuildCandidateUrls

SpecUrls == InitUrls /\ [][NextUrls]_vars

\* no DATABASE_URL, a plain host, a pooler host
EngineUrls ==
    {<<>>,
     MkUrl("postgres", "secret", "db.example.org", ":5432/", "postgres", <<>>),
     MkUrl("postgres", "secret", "aws-0.pooler.supabase.com", ":5432/", "postgres", <<>>)}

\* _build_candidate_urls() returns at most two candidates
CandidateSlots == {1, 2}

InitEngine ==
    /\ arg \in {[urls |-> build_candidate_urls(u), outcome |-> o] :
                   u \in EngineUrls,
                   o \in [CandidateSlots -> [DOMAIN Delays -> ProbeOutcomes]]}
    /\ call = ""
    /\ result = Fin(0)
    /\ FlowIdle

CallEngine ==
    /\ call = ""
    /\ call' = "_engine"
    /\ result' = _engine(arg.urls, arg.outcome)
    /\ UNCHANGED <<arg, flowVars>>

NextEngine == CallEngine

SpecEngine == InitEngine /\ [][NextEngine]_vars

(***************************************************************************)
(* Request approval workflow.  One script run of a session is: load_data() *)
(* and check_treasurer_password() (Rerun), then at most one handler of the *)
(* rendered page (a request submission or Apply Action), which works on    *)
(* the data loaded at the start of that run.  Runs of different sessions   *)
(* interleave; nothing locks the store.  The clock moves between runs.     *)
(*                                                                         *)
(* backend "csv" is src/app.py: handlers change the session's DataFrames   *)
(* and save_data() rewrites every CSV file from them.  backend "db" is     *)
(* src/streamlit_app.py: handlers call the write helpers of                *)
(* src/zawadi_db.py, each a single autocommitted statement.                *)
(*                                                                         *)
(* rid (requests) and req (ledger records) are history fields: the         *)
(* identity of the submission a row comes from.                            *)
(***************************************************************************)
Sessions == {"s1", "s2"}
Kinds    == {"expense", "special"}
RequestKinds == Kinds \cup {"contribution"}
Actions  == {"Approve", "Reject"}

MaxRequests == 2      \* submissions in one behaviour
MaxTicks    == 2      \* clock ticks in one behaviour
MaxLedger   == 3      \* rows of a ledger beyond which no failing batch is tried
TickSeconds == 1000   \* seconds per clock tick

SESSION_TIMEOUT == 1800
TREASURER_PASSWORD == "zawadi01*"
Passwords == {"", "letmein", TREASURER_PASSWORD}

Pending == "Pending Approval"

\* what a member can type into the two requisition forms
ExpenseForms ==
    {[Date |-> "2025-03-01", Description |-> "Gate repair", Category |-> "Maintenance",
      RequestedBy |-> "Achieng", Amount |-> 4500, Remarks |-> "Phone: 0700. urgent"]}
SpecialForms ==
    {[Date |-> "2025-04-12", Event |-> "Funeral support", Type |-> "Welfare",
      RequestedBy |-> "Chebet", Amount |-> 12000, Remarks |-> "for the family"]}
FormsOf(k) == IF k = "expense" THEN ExpenseForms ELSE SpecialForms

\* forms with a required text left empty, or with the amount left at 0
IncompleteForms(k) ==
    UNION {{[f EXCEPT !.RequestedBy = ""], [f EXCEPT !.Amount = 0]} : f \in FormsOf(k)}
AllFormsOf(k) == FormsOf(k) \cup IncompleteForms(k)

\* streamlit_app.py special_contributions: not event_name or event_amount <= 0
\* or not requested_by; the other requisition forms are saved as entered
refused_on_submit(k, f) ==
    /\ backend = "db"
    /\ k = "special"
    /\ (f.Event = "" \/ f.Amount <= 0 \/ f.RequestedBy = "")

\* the treasurer's text in "Approval Remarks" (the field's default)
ApprovalRemarks == "Approved by treasurer"

\* a submission that seeds the row with the status Approve
new_request_decided(k, rid, f) ==
    IF k = "expense"
    THEN [rid |-> rid, Date |-> f.Date, Description |-> f.Description,
          Category |-> f.Category, RequestedBy |-> f.RequestedBy,
          Amount |-> f.Amount, Status |-> "Approve", Remarks |-> <<f.Remarks>>]
    ELSE [rid |-> rid, Date |-> f.Date, Event |-> f.Event, Type |-> f.Type,
          RequestedBy |-> f.RequestedBy, Amount |-> f.Amount, Status |-> "Approve",
          Remarks |-> <<f.Remarks>>]

\* the row a submission adds to its request table; Remarks is the list of the
\* pieces of text the cell is made of
new_request(k, rid, f) ==
    IF k = "expense"
    THEN [rid |-> rid, Date |-> f.Date, Description |-> f.Description,
          Category |-> f.Category, RequestedBy |-> f.RequestedBy,
          Amount |-> f.Amount, Status |-> Pending, Remarks |-> <<f.Remarks>>]
    ELSE [rid |-> rid, Date |-> f.Date, Event |-> f.Event, Type |-> f.Type,
          RequestedBy |-> f.RequestedBy, Amount |-> f.Amount, Status |-> Pending,
          Remarks |-> <<f.Remarks>>]

\* the expense ledger row of an approved requisition
new_expense(r) ==
    [req |-> r.rid, Date |-> r.Date, Description |-> r.Description,
     Category |-> r.Category, Vendor |-> r.RequestedBy, Amount |-> r.Amount]

\* the special ledger row of an approved special request
new_contribution(r) ==
    [req |-> r.rid, Event |-> r.Event, Date |-> r.Date, Type |-> r.Type,
     Contributors |-> r.RequestedBy, Amount |-> r.Amount]

ledger_row(k, r) == IF k = "expense" THEN new_expense(r) ELSE new_contribution(r)

\* cash is the cash_management table (file): rows [cd, wd], oldest first
EmptyTables ==
    [requests |-> [k \in RequestKinds |-> <<>>], ledger |-> [k \in Kinds |-> <<>>],
     contributions |-> <<>>, cash |-> <<>>]

\* a row of cash_management: Cash Balance c/d and Cash Withdrawal
cash_row(cd, wd) == [cd |-> cd, wd |-> wd]

\* streamlit_app._offline_data_factory(): empty frames, and one row of zeros
\* for cash_management
_offline_data_factory == [EmptyTables EXCEPT !.cash = <<cash_row(0, 0)>>]

\* the row a load puts into st.session_state.cash_balance_cd / cash_withdrawal:
\* app.py reads the first row of the file, fetch_cash_management the row with
\* the latest updated_at (ORDER BY updated_at DESC LIMIT 1); zeros when there
\* is no row
fetch_cash_management(d) ==
    IF d.cash = <<>> THEN cash_row(0, 0)
    ELSE IF backend = "csv" THEN d.cash[1] ELSE d.cash[Len(d.cash)]

\* load_data(): every table as it is persisted now; the database application
\* falls back to empty frames when the server cannot be reached
load_data == IF backend = "db" /\ ~online THEN _offline_data_factory ELSE store

\* positions of the rows of data[s] shown under "Pending Approval:"
pending_requests(s, k) ==
    {i \in 1..Len(data[s].requests[k]) : data[s].requests[k][i].Status = Pending}

\* an ascending list of the positions in sel
RECURSIVE SortedSeq(_)
SortedSeq(S) ==
    IF S = {} THEN <<>>
    ELSE LET m == CHOOSE x \in S : \A y \in S : x <= y
         IN  <<m>> \o SortedSeq(S \ {m})

\* the treasurer-only sections: if st.session_state.get('treasurer_authenticated', False)
treasurer_section(s) == auth[s]

\* the member-only forms: if not st.session_state.get('treasurer_authenticated', False)
member_section(s) == ~auth[s]

\* st.session_state.last_activity: absent until the first correct password
NoActivity == [set |-> FALSE, at |-> 0]
ActivityAt(t) == [set |-> TRUE, at |-> t]

\* check_treasurer_password() without the comparison with the 1800 seconds
check_no_timeout(s, password) ==
    LET flag    == auth[s]
        entered == ~flag /\ password = TREASURER_PASSWORD
    IN  [authenticated |-> flag \/ entered,
         last_activity |-> IF entered THEN ActivityAt(now) ELSE last_activity[s]]

\* check_treasurer_password() with last_activity refreshed by every check that
\* finds the session authenticated
check_sliding(s, password) ==
    LET timed_out == /\ last_activity[s].set
                     /\ (now - last_activity[s].at) > SESSION_TIMEOUT
        flag      == IF timed_out THEN FALSE ELSE auth[s]
        entered   == ~flag /\ password = TREASURER_PASSWORD
    IN  [authenticated |-> flag \/ entered,
         last_activity |-> IF entered \/ flag THEN ActivityAt(now) ELSE last_activity[s]]

\* check_treasurer_password(): the flag and last_activity it leaves
check_treasurer_password(s, password) ==
    LET timed_out == /\ last_activity[s].set
                     /\ (now - last_activity[s].at) > SESSION_TIMEOUT
        flag      == IF timed_out THEN FALSE ELSE auth[s]
        entered   == ~flag /\ password = TREASURER_PASSWORD
    IN  [authenticated |-> flag \/ entered,
         last_activity |-> IF entered THEN ActivityAt(now) ELSE last_activity[s]]

\* a row of the contributions table; the months after FEB hold 0
Household(name, email, jan, feb) ==
    [f \in {"Family Name", "Email", "YTD"} \cup {MONTHS[i] : i \in 1..Len(MONTHS)} |->
        IF f = "Family Name" THEN Txt(name)
        ELSE IF f = "Email" THEN Txt(email)
        ELSE IF f = "JAN" THEN Num(jan)
        ELSE IF f = "FEB" THEN Num(feb)
        ELSE Num(0)]

\* get_current_month()
get_current_month == today.month

\* the households send_monthly_reminders writes to: debt > 0 and row['Email']
reminder_rows(d) ==
    SelectSeq(d.contributions,
              LAMBDA row : /\ FGtZero(calculate_current_debt(row, get_current_month, DEFAULT_RATES))
                           /\ row["Email"].v # "")

\* send_monthly_reminders(data): the outbox and last_reminder_sent it leaves
send_monthly_reminders(s, d) ==
    IF today.day # 1 \/ reminded[s] = today.month
    THEN [outbox |-> outbox, last_reminder_sent |-> reminded[s]]
    ELSE LET rows == reminder_rows(d)
         IN  [outbox |-> outbox \o [i \in 1..Len(rows) |->
                                        [to |-> rows[i]["Family Name"].v,
                                         month |-> today.month, day |-> today.day,
                                         by |-> s]],
              last_reminder_sent |-> today.month]

\* zawadi_db._conn: the error a write helper raises, "" when it raises none.
\* Whatever is raised while connecting or inside the with-block (the statement
\* itself included) leaves as the same RuntimeError.
WRITE_DISABLED == "Write disabled in offline mode"
_conn(reachable, statement_ok) ==
    IF reachable /\ statement_ok THEN "" ELSE WRITE_DISABLED

\* the Postgres server answers (the CSV files are always there)
store_reachable == backend = "csv" \/ online

NoForm == [none |-> TRUE]
NoEvent == [op |-> "none", s |-> "", kind |-> "", action |-> "", sel |-> {},
            by_treasurer |-> FALSE, form |-> NoForm, error |-> "", offline |-> FALSE,
            password |-> ""]

Init ==
    /\ backend \in {"csv", "db"}
    /\ store = EmptyTables
    /\ data = [s \in Sessions |-> EmptyTables]
    /\ pc = [s \in Sessions |-> "idle"]
    /\ auth = [s \in Sessions |-> FALSE]
    /\ last_activity = [s \in Sessions |-> NoActivity]
    /\ now = 0
    /\ nextId = 1
    /\ event = NoEvent
    /\ today = [month |-> "JAN", day |-> 2]
    /\ online = TRUE
    /\ reminded = [s \in Sessions |-> ""]
    /\ outbox = <<>>
    /\ arg = NoArg
    /\ call = ""
    /\ result = Fin(0)

\* main(): load_data(), send_monthly_reminders(data) on day 1,
\* treasurer_authenticated defaults to False, then check_treasurer_password();
\* a correct password reruns the script
Rerun(s, password) ==
    /\ pc[s] = "idle"
    /\ LET sent == send_monthly_reminders(s, load_data)
       IN  /\ outbox' = sent.outbox
           /\ reminded' = [reminded EXCEPT ![s] = sent.last_reminder_sent]
    /\ LET chk == check_treasurer_password(s, password)
       IN  /\ auth' = [auth EXCEPT ![s] = chk.authenticated]
           /\ last_activity' = [last_activity EXCEPT ![s] = chk.last_activity]
    /\ data' = [data EXCEPT ![s] = load_data]
    /\ pc' = [pc EXCEPT ![s] = "run"]
    /\ event' = [NoEvent EXCEPT !.op = "load", !.s = s,
                                !.offline = (backend = "db" /\ ~online),
                                !.password = password]
    /\ UNCHANGED <<backend, store, now, nextId, today, online, pureVars>>

\* the run ends with no write
Render(s) ==
    /\ pc[s] = "run"
    /\ pc' = [pc EXCEPT ![s] = "idle"]
    /\ data' = [data EXCEPT ![s] = EmptyTables]
    /\ UNCHANGED <<backend, store, auth, last_activity, now, nextId, event, envVars, pureVars>>

\* save_data(data): every CSV file is rewritten from the session's frames, and
\* cash_management.csv as one row from the session's cash values
save_data(d) == [d EXCEPT !.cash = <<fetch_cash_management(d)>>]

\* zawadi_db.update_cash_management: INSERT INTO cash_management ... NOW()
update_cash_management(st, cd, wd) == [st EXCEPT !.cash = Append(@, cash_row(cd, wd))]

\* "Submit Requisition" / "Submit Request"
SubmitRequest(s, k, f) ==
    /\ pc[s] = "run"
    /\ member_section(s)
    /\ nextId <= MaxRequests
    /\ IF refused_on_submit(k, f)
       THEN /\ UNCHANGED <<store, nextId>>
            /\ event' = [NoEvent EXCEPT !.op = "refused", !.s = s, !.kind = k, !.form = f]
       ELSE /\ store_reachable
            /\ LET row == new_request(k, nextId, f)
               IN  IF backend = "csv"
                   THEN store' = save_data([data[s] EXCEPT !.requests[k] = Append(@, row)])
                   ELSE store' = [store EXCEPT !.requests[k] = Append(@, row)]
            /\ nextId' = nextId + 1
            /\ event' = [NoEvent EXCEPT !.op = "submit", !.s = s, !.kind = k,
                                        !.sel = {nextId}, !.by_treasurer = auth[s],
                                        !.form = f]
    /\ pc' = [pc EXCEPT ![s] = "idle"]
    /\ data' = [data EXCEPT ![s] = EmptyTables]
    /\ UNCHANGED <<backend, auth, last_activity, now, envVars, pureVars>>

\* app.py "Apply Action": the loop over selected_requests on the session's frames
RECURSIVE apply_action_csv(_, _, _, _)
apply_action_csv(d, k, idxs, action) ==
    IF idxs = <<>> THEN d
    ELSE LET idx == Head(idxs)
             d1  == [d EXCEPT !.requests[k][idx].Status = action,
                              !.requests[k][idx].Remarks = <<ApprovalRemarks, " - ">> \o @]
             d2  == IF action = "Approve"
                    THEN [d1 EXCEPT !.ledger[k] = Append(@, ledger_row(k, d1.requests[k][idx]))]
                    ELSE d1
         IN  apply_action_csv(d2, k, Tail(idxs), action)

\* zawadi_db.insert_expense / insert_special: one INSERT
insert_ledger(st, k, row) == [st EXCEPT !.ledger[k] = Append(@, row)]

\* zawadi_db.set_expense_request_status / set_special_request_status:
\* UPDATE ... SET status = ..., remarks = CONCAT(..., ' | ', COALESCE(remarks,''))
\* WHERE id = ...
set_request_status(st, k, rid, status) ==
    [st EXCEPT !.requests[k] =
        [i \in DOMAIN @ |->
            IF @[i].rid = rid
            THEN [@[i] EXCEPT !.Status = status,
                              !.Remarks = <<ApprovalRemarks, " | ">> \o @]
            ELSE @[i]]]

\* streamlit_app.py "Apply Action": the loop over selected_requests, whose rows
\* come from the session's pending_requests and whose writes go to the database
RECURSIVE apply_action_db(_, _, _, _, _)
apply_action_db(st, pend, k, idxs, action) ==
    IF idxs = <<>> THEN st
    ELSE LET r   == pend[Head(idxs)]
             st1 == IF action = "Approve" THEN insert_ledger(st, k, ledger_row(k, r)) ELSE st
             st2 == set_request_status(st1, k, r.rid, action)
         IN  apply_action_db(st2, pend, k, Tail(idxs), action)

\* "Apply Action" on the requests ticked among the pending ones
ApplyAction(s, k, sel, action) ==
    /\ pc[s] = "run"
    /\ treasurer_section(s)
    /\ sel # {}
    /\ sel \subseteq pending_requests(s, k)
    /\ store_reachable
    /\ IF backend = "csv"
       THEN store' = save_data(apply_action_csv(data[s], k, SortedSeq(sel), action))
       ELSE store' = apply_action_db(store, data[s].requests[k], k, SortedSeq(sel), action)
    /\ pc' = [pc EXCEPT ![s] = "idle"]
    /\ data' = [data EXCEPT ![s] = EmptyTables]
    /\ event' = [NoEvent EXCEPT !.op = "apply", !.s = s, !.kind = k, !.action = action,
                                !.sel = {data[s].requests[k][i].rid : i \in sel},
                                !.by_treasurer = auth[s]]
    /\ UNCHANGED <<backend, auth, last_activity, now, nextId, envVars, pureVars>>

\* "Apply Action" in which the processing of the n-th ticked request fails (an
\* exception ends the script run).  app.py has changed only the session's
\* frames by then and never reaches save_data; streamlit_app.py has already
\* executed the statements of the requests before it, and, when the failure is
\* in the status UPDATE of an approval, the INSERT of the n-th as well.
ApplyActionFails(s, k, sel, action, n, failing) ==
    /\ pc[s] = "run"
    /\ treasurer_section(s)
    /\ sel # {}
    /\ sel \subseteq pending_requests(s, k)
    /\ n \in 1..Cardinality(sel)
    /\ Len(store.ledger[k]) + n <= MaxLedger
    /\ store_reachable
    /\ failing \in {"insert", "status"}
    /\ failing = "insert" => action = "Approve"
    /\ LET order  == SortedSeq(sel)
           before == SubSeq(order, 1, n - 1)
           pend   == data[s].requests[k]
       IN  /\ IF backend = "csv"
              THEN store' = store
              ELSE LET done == apply_action_db(store, pend, k, before, action)
                   IN  store' = IF action = "Approve" /\ failing = "status"
                                THEN insert_ledger(done, k, ledger_row(k, pend[order[n]]))
                                ELSE done
           /\ event' = [NoEvent EXCEPT !.op = "apply_failed", !.s = s, !.kind = k,
                           !.action = action,
                           !.sel = {pend[before[i]].rid : i \in DOMAIN before},
                           !.by_treasurer = auth[s],
                           !.error = IF backend = "db" THEN _conn(online, FALSE)
                                     ELSE "Exception"]
    /\ pc' = [pc EXCEPT ![s] = "idle"]
    /\ data' = [data EXCEPT ![s] = EmptyTables]
    /\ UNCHANGED <<backend, auth, last_activity, now, nextId, envVars, pureVars>>

\* ---- contribution requests ---------------------------------------------
\* what a member can enter in "Register Contribution": a family name of the
\* select box ("" is its first entry) and an amount (min_value = 0)
ContributionForms(d) ==
    {[FamilyName |-> n, Amount |-> a, Remarks |-> "Payment Ref: QX1. "] :
        n \in {""} \cup {d.contributions[i]["Family Name"].v : i \in DOMAIN d.contributions},
        a \in {0, 1500, 2500}}

\* contributions_dashboard: the YTD column is recomputed for every row before
\* any form of the page is handled
refresh_metrics(d) ==
    LET c == d.contributions
    IN  [d EXCEPT !.contributions =
            [i \in DOMAIN c |->
                [c[i] EXCEPT !["YTD"] = Num(calculate_ytd(c[i], get_current_month).v)]]]

new_contribution_request(rid, f) ==
    [rid |-> rid, Date |-> "2025-01-15", Month |-> get_current_month,
     FamilyName |-> f.FamilyName, Amount |-> f.Amount, Status |-> Pending,
     Remarks |-> <<f.Remarks>>]

\* "Submit Contribution": an empty family name or an amount <= 0 is refused
SubmitContribution(s, f) ==
    /\ pc[s] = "run"
    /\ member_section(s)
    /\ nextId <= MaxRequests
    /\ f \in ContributionForms(data[s])
    /\ IF f.FamilyName = "" \/ f.Amount <= 0
       THEN /\ UNCHANGED <<store, nextId>>
            /\ event' = [NoEvent EXCEPT !.op = "refused", !.s = s, !.kind = "contribution",
                                        !.form = f]
       ELSE /\ store_reachable
            /\ LET row == new_contribution_request(nextId, f)
               IN  IF backend = "csv"
                   THEN store' = save_data([refresh_metrics(data[s]) EXCEPT
                                               !.requests["contribution"] = Append(@, row)])
                   ELSE store' = [store EXCEPT !.requests["contribution"] = Append(@, row)]
            /\ nextId' = nextId + 1
            /\ event' = [NoEvent EXCEPT !.op = "submit", !.s = s, !.kind = "contribution",
                                        !.sel = {nextId}, !.form = f]
    /\ pc' = [pc EXCEPT ![s] = "idle"]
    /\ data' = [data EXCEPT ![s] = EmptyTables]
    /\ UNCHANGED <<backend, auth, last_activity, now, envVars, pureVars>>

\* positions of the households whose Family Name is the request's
family_idx(c, family_name) ==
    {i \in DOMAIN c : c[i]["Family Name"].v = family_name}

\* app.py "Apply Action" on contribution requests: the loop on the session's frames
RECURSIVE apply_contribution_csv(_, _, _)
apply_contribution_csv(d, idxs, action) ==
    IF idxs = <<>> THEN d
    ELSE LET idx == Head(idxs)
             req == d.requests["contribution"][idx]
             d1  == [d EXCEPT !.requests["contribution"][idx].Status = action,
                              !.requests["contribution"][idx].Remarks =
                                  <<ApprovalRemarks, " - ">> \o @]
             fam == family_idx(d1.contributions, req.FamilyName)
             d2  == IF action = "Approve" /\ fam # {}
                    THEN LET first == CHOOSE i \in fam : \A j \in fam : i <= j
                             paid  == [d1.contributions[first] EXCEPT ![req.Month] = Num(req.Amount)]
                         IN  [d1 EXCEPT !.contributions[first] =
                                 [paid EXCEPT !["YTD"] =
                                     Num(calculate_ytd(paid, get_current_month).v)]]
                    ELSE d1
         IN  apply_contribution_csv(d2, Tail(idxs), action)

\* COALESCE(jan,0)+...+COALESCE(dec,0) on the row as it is before the UPDATE
sql_month_sum(row) ==
    FSum([i \in 1..Len(MONTHS) |-> safe_convert_to_float(row[MONTHS[i]])]).v

\* zawadi_db.approve_contribution_request(req_row, action, approval_remarks, current_month)
approve_contribution_request(st, req_row, action, current_month) ==
    LET st1 == set_request_status(st, "contribution", req_row.rid, action)
    IN  IF action # "Approve" THEN st1
        ELSE LET c == st1.contributions
             IN  [st1 EXCEPT !.contributions =
                    [i \in DOMAIN c |->
                        IF c[i]["Family Name"].v = req_row.FamilyName
                        THEN [c[i] EXCEPT ![current_month] = Num(req_row.Amount),
                                          !["YTD"] = Num(sql_month_sum(c[i]))]
                        ELSE c[i]]]

RECURSIVE apply_contribution_db(_, _, _, _)
apply_contribution_db(st, pend, idxs, action) ==
    IF idxs = <<>> THEN st
    ELSE apply_contribution_db(
             approve_contribution_request(st, pend[Head(idxs)], action, get_current_month),
             pend, Tail(idxs), action)

\* a treasurer decides the ticked contribution requests: the "Apply Action" of
\* app.py, and approve_contribution_request of zawadi_db.py for each ticked row
ApplyContribution(s, sel, action) ==
    /\ pc[s] = "run"
    /\ treasurer_section(s)
    /\ sel # {}
    /\ sel \subseteq pending_requests(s, "contribution")
    /\ store_reachable
    /\ IF backend = "csv"
       THEN store' = save_data(apply_contribution_csv(refresh_metrics(data[s]),
                                                      SortedSeq(sel), action))
       ELSE store' = apply_contribution_db(store, data[s].requests["contribution"],
                                           SortedSeq(sel), action)
    /\ pc' = [pc EXCEPT ![s] = "idle"]
    /\ data' = [data EXCEPT ![s] = EmptyTables]
    /\ event' = [NoEvent EXCEPT !.op = "apply", !.s = s, !.kind = "contribution",
                                !.action = action,
                                !.sel = {data[s].requests["contribution"][i].rid : i \in sel},
                                !.by_treasurer = auth[s]]
    /\ UNCHANGED <<backend, auth, last_activity, now, nextId, envVars, pureVars>>

\* the calendar moves on to a later date
Dates == <<[month |-> "JAN", day |-> 1], [month |-> "JAN", day |-> 2],
           [month |-> "FEB", day |-> 1], [month |-> "FEB", day |-> 2]>>

DatePasses(d) ==
    /\ \A s \in Sessions : pc[s] = "idle"
    /\ \E i, j \in DOMAIN Dates : i < j /\ Dates[i] = today /\ Dates[j] = d
    /\ today' = d
    /\ UNCHANGED <<backend, store, data, pc, auth, last_activity, now, nextId, event,
                   online, reminded, outbox, pureVars>>

\* time passes between script runs
Tick ==
    /\ \A s \in Sessions : pc[s] = "idle"
    /\ now < MaxTicks * TickSeconds
    /\ now' = now + TickSeconds
    /\ UNCHANGED <<backend, store, data, pc, auth, last_activity, nextId, event, envVars, pureVars>>

Next ==
    \/ \E s \in Sessions, password \in Passwords : Rerun(s, password)
    \/ \E s \in Sessions : Render(s)
    \/ \E s \in Sessions, k \in Kinds : \E f \in FormsOf(k) : SubmitRequest(s, k, f)
    \/ \E s \in Sessions, k \in Kinds, action \in Actions :
          \E sel \in SUBSET pending_requests(s, k) : ApplyAction(s, k, sel, action)
    \/ Tick

Spec == Init /\ [][Next]_vars

\* ---- one session at the desk: all three request kinds, incomplete forms,
\* ---- failing batches, and requests decided in a later month
DeskSessions == {"s1"}

DeskTables ==
    {<<Household("Otieno", "otieno@mail", 0, 0), Household("Wanjiru", "", 2000, 2000)>>,
     <<Household("Otieno", "otieno@mail", 2000, 0), Household("Otieno", "", 0, 2000)>>}

InitDesk ==
    /\ backend \in {"csv", "db"}
    /\ today = [month |-> "JAN", day |-> 2]
    /\ \E t \in DeskTables :
          store = [EmptyTables EXCEPT !.contributions =
                      [i \in DOMAIN t |-> [t[i] EXCEPT !["YTD"] = Num(calculate_ytd(t[i], "JAN").v)]]]
    /\ data = [s \in Sessions |-> EmptyTables]
    /\ pc = [s \in Sessions |-> "idle"]
    /\ auth = [s \in Sessions |-> FALSE]
    /\ last_activity = [s \in Sessions |-> NoActivity]
    /\ now = 0
    /\ nextId = 1
    /\ event = NoEvent
    /\ online = TRUE
    /\ reminded = [s \in Sessions |-> ""]
    /\ outbox = <<>>
    /\ arg = NoArg
    /\ call = ""
    /\ result = Fin(0)

NextDesk ==
    \/ \E s \in DeskSessions, password \in Passwords : Rerun(s, password)
    \/ \E s \in DeskSessions : Render(s)
    \/ \E s \in DeskSessions, k \in Kinds : \E f \in AllFormsOf(k) : SubmitRequest(s, k, f)
    \/ \E s \in DeskSessions : \E f \in ContributionForms(data[s]) : SubmitContribution(s, f)
    \/ \E s \in DeskSessions, k \in Kinds, action \in Actions :
          \E sel \in SUBSET pending_requests(s, k) : ApplyAction(s, k, sel, action)
    \/ \E s \in DeskSessions, k \in Kinds, action \in Actions, failing \in {"insert", "status"} :
          \E sel \in SUBSET pending_requests(s, k) : \E n \in 1..Cardinality(sel) :
             ApplyActionFails(s, k, sel, action, n, failing)
    \/ \E s \in DeskSessions, action \in Actions :
          \E sel \in SUBSET pending_requests(s, "contribution") : ApplyContribution(s, sel, action)
    \/ DatePasses([month |-> "FEB", day |-> 2])

SpecDesk == InitDesk /\ [][NextDesk]_vars

\* ---- the treasurer's cash snapshot ----------------------------------------
MaxCashRows == 2     \* rows of cash_management beyond which no save is tried
CashAmounts == {0, 5000}

\* "Save Cash Balance": the two number inputs are put into the session state;
\* app.py then calls save_data(data), streamlit_app.py update_cash_management
SaveCash(s, cd, wd) ==
    /\ pc[s] = "run"
    /\ treasurer_section(s)
    /\ store_reachable
    /\ Len(store.cash) < MaxCashRows
    /\ IF backend = "csv"
       THEN store' = save_data([data[s] EXCEPT !.cash = <<cash_row(cd, wd)>>])
       ELSE store' = update_cash_management(store, cd, wd)
    /\ event' = [NoEvent EXCEPT !.op = "cash", !.s = s, !.by_treasurer = auth[s],
                                !.form = cash_row(cd, wd)]
    /\ pc' = [pc EXCEPT ![s] = "idle"]
    /\ data' = [data EXCEPT ![s] = EmptyTables]
    /\ UNCHANGED <<backend, auth, last_activity, now, nextId, envVars, pureVars>>

NextCash ==
    \/ \E s \in DeskSessions, password \in Passwords : Rerun(s, password)
    \/ \E s \in DeskSessions : Render(s)
    \/ \E s \in DeskSessions, k \in Kinds : \E f \in FormsOf(k) : SubmitRequest(s, k, f)
    \/ \E s \in DeskSessions, cd \in CashAmounts, wd \in CashAmounts : SaveCash(s, cd, wd)

SpecCash == Init /\ [][NextCash]_vars

\* ---- one session: requests of the three kinds are submitted and decided
NextIntake ==
    \/ \E s \in DeskSessions, password \in Passwords : Rerun(s, password)
    \/ \E s \in DeskSessions : Render(s)
    \/ \E s \in DeskSessions, k \in Kinds : \E f \in AllFormsOf(k) : SubmitRequest(s, k, f)
    \/ \E s \in DeskSessions : \E f \in ContributionForms(data[s]) : SubmitContribution(s, f)
    \/ \E s \in DeskSessions, k \in Kinds, action \in Actions :
          \E sel \in SUBSET pending_requests(s, k) : ApplyAction(s, k, sel, action)
    \/ \E s \in DeskSessions, action \in Actions :
          \E sel \in SUBSET pending_requests(s, "contribution") : ApplyContribution(s, sel, action)

SpecIntake == InitDesk /\ [][NextIntake]_vars

\* ---- the pages as the two applications render them.  app.py has the panel
\* "Approve Contribution Requests"; the treasurer panel of streamlit_app.py's
\* contributions dashboard lists data['special_requests'], and no page of
\* streamlit_app.py calls approve_contribution_request
approval_panel(s, k) ==
    /\ treasurer_section(s)
    /\ k = "contribution" => backend = "csv"

ApproveContributions(s, sel, action) ==
    /\ approval_panel(s, "contribution")
    /\ ApplyContribution(s, sel, action)

\* what a treasurer's script run can do to the pending requests of kind k
Decide(s, k) ==
    /\ approval_panel(s, k)
    /\ IF k = "contribution"
       THEN \E action \in Actions :
               \E sel \in SUBSET pending_requests(s, k) : ApproveContributions(s, sel, action)
       ELSE \E action \in Actions :
               \E sel \in SUBSET pending_requests(s, k) : ApplyAction(s, k, sel, action)

NextPages ==
    \/ \E s \in DeskSessions, password \in Passwords : Rerun(s, password)
    \/ \E s \in DeskSessions : Render(s)
    \/ \E s \in DeskSessions, k \in Kinds : \E f \in FormsOf(k) : SubmitRequest(s, k, f)
    \/ \E s \in DeskSessions : \E f \in ContributionForms(data[s]) : SubmitContribution(s, f)
    \/ \E s \in DeskSessions, k \in RequestKinds : Decide(s, k)

SpecPages == InitDesk /\ [][NextPages]_vars

\* ---- one browser session over time: logging in, working, leaving the page open
NextSession ==
    \/ \E s \in DeskSessions, password \in Passwords : Rerun(s, password)
    \/ \E s \in DeskSessions : Render(s)
    \/ \E s \in DeskSessions, k \in Kinds : \E f \in FormsOf(k) : SubmitRequest(s, k, f)
    \/ \E s \in DeskSessions, k \in Kinds, action \in Actions :
          \E sel \in SUBSET pending_requests(s, k) : ApplyAction(s, k, sel, action)
    \/ Tick

SpecSession == Init /\ [][NextSession]_vars

\* ---- the calendar runs over two months while two browser sessions load pages
InitReminders ==
    /\ backend \in {"csv", "db"}
    /\ today = Dates[1]
    /\ \E t \in DeskTables :
          store = [EmptyTables EXCEPT !.contributions =
                      [i \in DOMAIN t |-> [t[i] EXCEPT !["YTD"] = Num(calculate_ytd(t[i], "JAN").v)]]]
    /\ data = [s \in Sessions |-> EmptyTables]
    /\ pc = [s \in Sessions |-> "idle"]
    /\ auth = [s \in Sessions |-> FALSE]
    /\ last_activity = [s \in Sessions |-> NoActivity]
    /\ now = 0
    /\ nextId = 1
    /\ event = NoEvent
    /\ online = TRUE
    /\ reminded = [s \in Sessions |-> ""]
    /\ outbox = <<>>
    /\ arg = NoArg
    /\ call = ""
    /\ result = Fin(0)

NextReminders ==
    \/ \E s \in Sessions, password \in Passwords : Rerun(s, password)
    \/ \E s \in Sessions : Render(s)
    \/ \E i \in DOMAIN Dates : DatePasses(Dates[i])

SpecReminders == InitReminders /\ [][NextReminders]_vars

\* ---- the Postgres server comes and goes (streamlit_app.py) ----------------
\* the eight frames of the data dict
Entities == {"contributions", "expenses", "special", "rates", "expense_requests",
             "contribution_requests", "special_requests", "cash_management"}

MonthColumns == {MONTHS[i] : i \in DOMAIN MONTHS}

\* _offline_data_factory(): the columns of each frame
offline_columns ==
    [e \in Entities |->
        CASE e = "contributions" ->
               {"House No", "Family Name", "Lane", "Rate Category", "Email", "Remarks",
                "Cumulative Debt (2024 & Prior)"} \cup MonthColumns
                  \cup {"YTD", "Current Debt", "Status"}
          [] e = "expenses" ->
               {"Date", "Description", "Category", "Vendor", "Phone", "Amount (KES)",
                "Mode", "Remarks"}
          [] e = "special" -> {"Date", "Event", "Type", "Contributors", "Amount", "Remarks"}
          [] e = "rates" -> {"Rate Category", "Amount"}
          [] e = "expense_requests" ->
               {"id", "Date", "Description", "Category", "Requested By", "Amount (KES)",
                "Status", "Remarks"}
          [] e = "contribution_requests" ->
               {"id", "Date", "Month", "Family Name", "House No", "Lane", "Rate Category",
                "Amount (KES)", "Status", "Remarks"}
          [] e = "special_requests" ->
               {"id", "Date", "Event", "Type", "Requested By", "Amount", "Status", "Remarks"}
          [] e = "cash_management" -> {"Cash Balance c/d", "Cash Withdrawal"}]

\* _offline_data_factory(): the number of rows of each frame
offline_rows ==
    [e \in Entities |->
        CASE e = "rates" -> 3
          [] e = "cash_management" -> 1
          [] OTHER -> 0]

\* zawadi_db.load_all(): the columns of each frame after the renames of the
\* fetch_* helpers, on the schema the queries name
load_all_columns ==
    [e \in Entities |->
        CASE e = "contributions" ->
               {"House No", "Family Name", "Lane", "Rate Category", "Email",
                "Cumulative Debt (2024 & Prior)"} \cup MonthColumns
                  \cup {"YTD", "Current Debt", "Status", "Remarks", "updated_at"}
          [] e = "expenses" ->
               {"id", "Date", "Description", "Category", "Vendor", "Phone", "Amount (KES)",
                "Mode", "Remarks"}
          [] e = "special" ->
               {"id", "Event", "Date", "Type", "Contributors", "Amount", "Remarks"}
          [] e = "rates" -> {"Rate Category", "Amount"}
          [] e = "expense_requests" ->
               {"id", "Date", "Description", "Category", "Requested By", "Amount (KES)",
                "Status", "Remarks"}
          [] e = "contribution_requests" ->
               {"id", "Date", "Month", "Family Name", "House No", "Lane", "Rate Category",
                "Amount (KES)", "Status", "Remarks"}
          [] e = "special_requests" ->
               {"id", "Date", "Event", "Type", "Requested By", "Amount", "Status", "Remarks"}
          [] e = "cash_management" -> {"Cash Balance c/d", "Cash Withdrawal"}]

\* a handler whose first write helper finds the server unreachable: the helper
\* raises and the script run ends there
Handlers == {"submit", "apply"}
OfflineWrite(s, k, handler) ==
    /\ pc[s] = "run"
    /\ ~store_reachable
    /\ \/ /\ handler = "submit"
          /\ member_section(s)
          /\ nextId <= MaxRequests
          /\ \E f \in FormsOf(k) : ~refused_on_submit(k, f)
       \/ /\ handler = "apply"
          /\ treasurer_section(s)
          /\ pending_requests(s, k) # {}
    /\ event' = [NoEvent EXCEPT !.op = "write_failed", !.s = s, !.kind = k,
                                !.action = handler, !.by_treasurer = auth[s],
                                !.error = _conn(online, TRUE)]
    /\ pc' = [pc EXCEPT ![s] = "idle"]
    /\ data' = [data EXCEPT ![s] = EmptyTables]
    /\ UNCHANGED <<backend, store, auth, last_activity, now, nextId, envVars, pureVars>>

\* the server becomes unreachable, or reachable again
ConnectionChanges ==
    /\ backend = "db"
    /\ online' = ~online
    /\ UNCHANGED <<backend, store, data, pc, auth, last_activity, now, nextId, event,
                   today, reminded, outbox, pureVars>>

InitOffline == Init /\ backend = "db"

NextOffline ==
    \/ \E s \in DeskSessions, password \in Passwords : Rerun(s, password)
    \/ \E s \in DeskSessions : Render(s)
    \/ \E s \in DeskSessions, k \in Kinds : \E f \in FormsOf(k) : SubmitRequest(s, k, f)
    \/ \E s \in DeskSessions, k \in Kinds, action \in Actions :
          \E sel \in SUBSET pending_requests(s, k) : ApplyAction(s, k, sel, action)
    \/ \E s \in DeskSessions, k \in Kinds, action \in Actions, failing \in {"insert", "status"} :
          \E sel \in SUBSET pending_requests(s, k) : \E n \in 1..Cardinality(sel) :
             ApplyActionFails(s, k, sel, action, n, failing)
    \/ \E s \in DeskSessions, k \in Kinds, handler \in Handlers : OfflineWrite(s, k, handler)
    \/ ConnectionChanges

SpecOffline == InitOffline /\ [][NextOffline]_vars

(***************************************************************************)
(* Claims about safe_convert_to_float (SpecParse).                         *)
(***************************************************************************)
SetMin(S) == CHOOSE x \in S : \A y \in S : x <= y
SetMax(S) == CHOOSE x \in S : \A y \in S : x >= y

RECURSIVE Pow10(_)
Pow10(n) == IF n = 0 THEN 1 ELSE 10 * Pow10(n - 1)

DigitPositions(s) == {i \in 1..Len(s) : IsDigit(s[i])}

\* The text writes a number: digits, possibly grouped by commas, an optional
\* leading minus sign, and nothing else but surrounding blanks.
WritesNumber(s) ==
    LET D == DigitPositions(s)
    IN  /\ D # {}
        /\ LET lo == SetMin(D)
               hi == SetMax(D)
               H  == {i \in 1..(lo - 1) : s[i] = "-"}
           IN  /\ \A i \in lo..hi : IsDigit(s[i]) \/ s[i] = ","
               /\ \A i \in (hi + 1)..Len(s) : s[i] \in {" ", ","}
               /\ \A i \in 1..(lo - 1) : s[i] \in {" ", ",", "-"}
               /\ Cardinality(H) <= 1
               /\ \A h \in H : \A i \in (h + 1)..(lo - 1) : s[i] = ","

RECURSIVE SumOver(_, _)
SumOver(S, f) ==
    IF S = {} THEN 0
    ELSE LET x == CHOOSE y \in S : TRUE IN f[x] + SumOver(S \ {x}, f)

NumberWritten(s) ==
    LET D == DigitPositions(s)
        weight == [i \in D |->
                      DigitVal(s[i]) * Pow10(Cardinality({j \in D : j > i}))]
        magnitude == SumOver(D, weight)
    IN  IF \E i \in 1..Len(s) : s[i] = "-" THEN -magnitude ELSE magnitude

ExpectedParse(value) ==
    IF value.t = "na" THEN Fin(0)
    ELSE IF value.t = "num" THEN Fin(value.v)
    ELSE IF WritesNumber(value.v) THEN Fin(NumberWritten(value.v))
    ELSE Fin(0)

\* C10: safe_convert_to_float returns 0.0 for a missing value, the empty
\* string, a lone hyphen and any non-numeric text, and otherwise the number
\* written, ignoring thousands separators and surrounding whitespace.
C10_ParseContract ==
    call = "safe_convert_to_float" => result = ExpectedParse(arg.value)

(***************************************************************************)
(* Claims about the derivation engine (SpecCalc).                          *)
(***************************************************************************)
ClaimDefaultRate == 2000

\* monthIndex of the claims: 0 for JAN .. 11 for DEC, 11 for anything else
ClaimMonthIndex(m) ==
    CASE m = "JAN" -> 0 [] m = "FEB" -> 1 [] m = "MAR" -> 2 [] m = "APR" -> 3
      [] m = "MAY" -> 4 [] m = "JUN" -> 5 [] m = "JUL" -> 6 [] m = "AUG" -> 7
      [] m = "SEP" -> 8 [] m = "OCT" -> 9 [] m = "NOV" -> 10 [] OTHER -> 11

\* the months JAN..M of the claims (all twelve when M is no month code)
MonthsThrough(m) == {MONTHS[i] : i \in 1..(ClaimMonthIndex(m) + 1)}

HasMonthsThrough(row, m) == MonthsThrough(m) \subseteq DOMAIN row

RECURSIVE AmountsOver(_, _)
AmountsOver(row, ms) ==
    IF ms = {} THEN Fin(0)
    ELSE LET x == CHOOSE y \in ms : TRUE
         IN  FAdd(safe_convert_to_float(row[x]), AmountsOver(row, ms \ {x}))

ZeroMonths(row, m) ==
    {x \in MonthsThrough(m) : safe_convert_to_float(row[x]) = Fin(0)}

NumericRow(row) ==
    /\ \A i \in 1..Len(MONTHS) : MONTHS[i] \in DOMAIN row /\ row[MONTHS[i]].t = "num"
    /\ DebtField \in DOMAIN row => row[DebtField].t = "num"

PriorDebt(row) == IF DebtField \in DOMAIN row THEN row[DebtField].v ELSE 0

\* C5: for a row with numeric cells calculate_current_debt returns
\* priorDebt + (monthIndex(M) + 1) * monthlyRate - yearToDate(M).
C5_DebtFormula ==
    (call = "calculate_current_debt" /\ NumericRow(arg.row)) =>
        result = Fin(PriorDebt(arg.row)
                     + (ClaimMonthIndex(arg.month) + 1)
                         * calculate_monthly_rate(arg.row, arg.rates)
                     - AmountsOver(arg.row, MonthsThrough(arg.month)).v)

\* a numeric row that owes money in a month that is not the first
C5_Witness ==
    /\ call = "calculate_current_debt"
    /\ NumericRow(arg.row)
    /\ arg.month = "MAR"
    /\ arg.row["FEB"].v > 0
    /\ result.k = "fin" /\ result.v > 0

\* C6: calculate_ytd(row, M) is the sum of the row's monthly amounts for JAN
\* through M inclusive; months after M never contribute; all twelve months
\* are summed when M is not a month code.
C6_YtdSum ==
    (call = "calculate_ytd" /\ HasMonthsThrough(arg.row, arg.month)) =>
        result = AmountsOver(arg.row, MonthsThrough(arg.month))

\* a paid month after M that is left out of the sum
C6_Witness ==
    /\ call = "calculate_ytd"
    /\ arg.month = "FEB"
    /\ HasMonthsThrough(arg.row, "DEC")
    /\ arg.row["MAR"] = Num(2000)
    /\ result = Fin(1000)


\* C7: Up-to-date exactly when the current debt is <= 0, whatever the number
\* of zero months; with debt > 0, "1-2 months behind" when at most two of the
\* months JAN..M are zero and ">2 months behind" when three or more are.
C7_StatusRule ==
    call = "get_payment_status" =>
        LET debt == calculate_current_debt(arg.row, arg.month, arg.rates)
        IN  /\ (result = UpToDate) <=> FLeqZero(debt)
            /\ FGtZero(debt) =>
                  result = IF Cardinality(ZeroMonths(arg.row, arg.month)) <= 2
                           THEN Behind12 ELSE BehindMore

\* no debt although three or more months are zero: the debt check wins
C7_Witness ==
    /\ call = "get_payment_status"
    /\ HasMonthsThrough(arg.row, arg.month)
    /\ Cardinality(ZeroMonths(arg.row, arg.month)) >= 3
    /\ FLeqZero(calculate_current_debt(arg.row, arg.month, arg.rates))
    /\ result = UpToDate

\* C8: none of the five functions raises, whatever the row.
C8_NeverRaises ==
    /\ call \in {"calculate_monthly_rate", "calculate_liability"} => result \in Int
    /\ call \in {"calculate_ytd", "calculate_current_debt"} => result.k # "raise"
    /\ call = "get_payment_status" => result \in {UpToDate, Behind12, BehindMore}

CategoryKnown(row, rates_df) ==
    /\ RateField \in DOMAIN row
    /\ row[RateField].t = "txt"
    /\ row[RateField].v # ""
    /\ \E i \in 1..Len(rates_df) : rates_df[i].cat = row[RateField].v

\* C9: calculate_monthly_rate returns the default 2000 when the category is
\* missing, NaN, empty or not in the rate table, and the table's amount for
\* the category otherwise.
C9_RateFallback ==
    call = "calculate_monthly_rate" =>
        IF CategoryKnown(arg.row, arg.rates)
        THEN \E i \in 1..Len(arg.rates) :
                /\ arg.rates[i].cat = arg.row[RateField].v
                /\ arg.rates[i].amount = result
        ELSE result = ClaimDefaultRate

\* a category the rate table does not list, in a table whose rates all
\* differ from the default
C9_Witness ==
    /\ call = "calculate_monthly_rate"
    /\ RateField \in DOMAIN arg.row
    /\ arg.row[RateField] = Txt("Special Rate")
    /\ \A i \in 1..Len(arg.rates) : arg.rates[i].amount # ClaimDefaultRate
    /\ result = ClaimDefaultRate

\* ordering of the floats a function returns; NaN compares false
FGeqZero(a) == (a.k = "fin" /\ a.v >= 0) \/ (a.k = "inf" /\ a.v > 0)
FLeq(a, b) ==
    \/ a.k = "fin" /\ b.k = "fin" /\ a.v <= b.v
    \/ a.k = "inf" /\ a.v < 0 /\ b.k \in {"fin", "inf"}
    \/ b.k = "inf" /\ b.v > 0 /\ a.k \in {"fin", "inf"}

\* the months of JAN..DEC after m
LaterMonths(m) ==
    {MONTHS[j] : j \in {i \in 1..Len(MONTHS) : \E h \in 1..(i - 1) : MONTHS[h] = m}}

\* C11: for every row and month M whose fields the row has, calculate_ytd(row, M)
\* is >= 0 and is <= calculate_ytd(row, M') for every later month M'.
C11_YtdNonNegMonotone ==
    (call = "calculate_ytd" /\ result.k # "raise") =>
        /\ FGeqZero(result)
        /\ \A m2 \in LaterMonths(arg.month) :
              HasMonthsThrough(arg.row, m2) => FLeq(result, calculate_ytd(arg.row, m2))

(***************************************************************************)
(* Claims about the request approval workflow (Spec).                      *)
(***************************************************************************)
RequestIds == 1..MaxRequests
Terminal == {"Approve", "Reject"}

\* the rows of table k in st that come from submission rid
RowsOf(st, k, rid) == {i \in DOMAIN st.requests[k] : st.requests[k][i].rid = rid}
Known(st, k, rid) == RowsOf(st, k, rid) # {}
RowOf(st, k, rid) == st.requests[k][CHOOSE i \in RowsOf(st, k, rid) : TRUE]
StatusOf(st, k, rid) == RowOf(st, k, rid).Status

\* how many rows of ledger k in st come from request rid
LedgerCount(st, k, rid) ==
    Cardinality({i \in DOMAIN st.ledger[k] : st.ledger[k][i].req = rid})

\* C1: whatever the interleaving of sessions, no request has more than one
\* ledger record, even when a session holding a snapshot in which the request
\* is still Pending Approval applies an action after it was decided.
C1_SingleShot ==
    \A k \in Kinds, rid \in RequestIds : LedgerCount(store, k, rid) <= 1

\* the step is an Apply Action
ApplyStep == event' # event /\ event'.op = "apply"

\* the ledger row the claim expects for an approved request
ExpectedLedgerRow(k, r) ==
    IF k = "expense"
    THEN [req |-> r.rid, Date |-> r.Date, Description |-> r.Description,
          Category |-> r.Category, Vendor |-> r.RequestedBy, Amount |-> r.Amount]
    ELSE [req |-> r.rid, Event |-> r.Event, Date |-> r.Date, Type |-> r.Type,
          Contributors |-> r.RequestedBy, Amount |-> r.Amount]

RECURSIVE ExpectedRows(_, _, _)
ExpectedRows(st, k, rids) ==
    IF rids = <<>> THEN <<>>
    ELSE <<ExpectedLedgerRow(k, RowOf(st, k, Head(rids)))>> \o ExpectedRows(st, k, Tail(rids))

\* the requests of the action are Pending Approval in the store
PendingInStore(k, sel) ==
    \A rid \in sel : Known(store, k, rid) /\ StatusOf(store, k, rid) = Pending

\* C2: an Apply Action on pending requests of kind k adds to ledger k exactly
\* one record per request, with the request's date, description/event,
\* category/type, requester and amount, when the action is Approve, and leaves
\* every ledger as it was when the action is Reject; no other ledger row changes.
C2_ApplyEffect ==
    [][ (ApplyStep /\ PendingInStore(event'.kind, event'.sel)) =>
          LET k == event'.kind
          IN  /\ \A j \in Kinds \ {k} : store'.ledger[j] = store.ledger[j]
              /\ IF event'.action = "Approve"
                 THEN store'.ledger[k] =
                        store.ledger[k] \o ExpectedRows(store, k, SortedSeq(event'.sel))
                 ELSE store'.ledger[k] = store.ledger[k] ]_vars

\* C3: in every step, a request whose status changes goes from Pending
\* Approval to Approve or to Reject; a decided request keeps its status and
\* none returns to Pending Approval.
C3_StatusMonotone ==
    [][ \A k \in Kinds, rid \in RequestIds :
          (Known(store, k, rid) /\ Known(store', k, rid)
             /\ StatusOf(store', k, rid) # StatusOf(store, k, rid))
          => (StatusOf(store, k, rid) = Pending /\ StatusOf(store', k, rid) \in Terminal) ]_vars

\* the step changes the status of a stored request or a ledger
DecisionWritten ==
    \/ \E k \in Kinds, rid \in RequestIds :
          /\ Known(store, k, rid) /\ Known(store', k, rid)
          /\ StatusOf(store', k, rid) # StatusOf(store, k, rid)
    \/ \E k \in Kinds : store'.ledger[k] # store.ledger[k]

\* the session whose run writes in this step
Writer(s) == pc[s] = "run" /\ pc'[s] = "idle"

\* C4: every step that changes a request's status or a ledger is taken by a
\* session whose treasurer_authenticated flag is true; a member session
\* submits requests and decides none.
C4_TreasurerOnly ==
    [][ DecisionWritten => \E s \in Sessions : Writer(s) /\ auth[s] ]_vars

\* old is the tail of new: the text is still there, unaltered, at the end
EndsWith(new, old) ==
    Len(new) >= Len(old) /\ SubSeq(new, Len(new) - Len(old) + 1, Len(new)) = old

\* C14: a step that changes a request's status or remarks leaves remarks that
\* contain the treasurer's remark and, unaltered, all the text the stored
\* remarks held before the step; no step shortens or replaces remark text.
C14_RemarksAppendOnly ==
    [][ \A k \in Kinds, rid \in RequestIds :
          (Known(store, k, rid) /\ Known(store', k, rid)
             /\ RowOf(store', k, rid) # RowOf(store, k, rid))
          => /\ EndsWith(RowOf(store', k, rid).Remarks, RowOf(store, k, rid).Remarks)
             /\ \E i \in DOMAIN RowOf(store', k, rid).Remarks :
                   RowOf(store', k, rid).Remarks[i] = ApprovalRemarks ]_vars

(***************************************************************************)
(* Claims about contribution requests, incomplete forms and failing        *)
(* batches (SpecDesk).                                                     *)
(***************************************************************************)
\* the step approves contribution requests that are pending in the store
ContributionApproved ==
    /\ ApplyStep
    /\ event'.kind = "contribution"
    /\ event'.action = "Approve"
    /\ PendingInStore("contribution", event'.sel)

HouseholdFields == DOMAIN Household("", "", 0, 0)

\* C12: approving a contribution request writes the slot of the request's
\* month in one household of the request's family name (whose YTD is
\* recomputed); no other cell of the contributions table changes.
C12_OneSlot ==
    [][ ContributionApproved =>
          LET old  == store.contributions
              new  == store'.contributions
              reqs == {RowOf(store, "contribution", rid) : rid \in event'.sel}
          IN  /\ DOMAIN new = DOMAIN old
              /\ \A i \in DOMAIN old, f \in HouseholdFields :
                    new[i][f] # old[i][f] =>
                       \E r \in reqs : /\ old[i]["Family Name"].v = r.FamilyName
                                       /\ f \in {r.Month, "YTD"}
              /\ \A r \in reqs :
                    /\ Cardinality({i \in DOMAIN old : /\ old[i]["Family Name"].v = r.FamilyName
                                                       /\ new[i] # old[i]}) <= 1
                    /\ \E i \in DOMAIN old : /\ old[i]["Family Name"].v = r.FamilyName
                                             /\ new[i][r.Month] = Num(r.Amount) ]_vars

RECURSIVE SlotSum(_, _)
SlotSum(row, n) == IF n = 0 THEN 0 ELSE row[MONTHS[n]].v + SlotSum(row, n - 1)

\* C13: right after an approval the stored YTD of every household the approval
\* wrote to is the sum of its monthly amounts as they are now, the approved
\* amount included (the months up to the current one, or all twelve).
C13_YtdSeesNewAmount ==
    [][ ContributionApproved =>
          LET old  == store.contributions
              new  == store'.contributions
              reqs == {RowOf(store, "contribution", rid) : rid \in event'.sel}
          IN  \A i \in DOMAIN old :
                 (i \in DOMAIN new /\ new[i] # old[i]
                    /\ \E r \in reqs : old[i]["Family Name"].v = r.FamilyName)
                 => new[i]["YTD"].v \in {SlotSum(new[i], ClaimMonthIndex(today.month) + 1),
                                         SlotSum(new[i], Len(MONTHS))} ]_vars

\* C15: when a batch stops at one of its requests, every request the batch
\* had already processed is stored with the chosen status, and with its
\* ledger record when the action was Approve.
C15_EarlierKept ==
    [][ (event' # event /\ event'.op = "apply_failed")
          => \A rid \in event'.sel :
                /\ Known(store', event'.kind, rid)
                /\ StatusOf(store', event'.kind, rid) = event'.action
                /\ (event'.action = "Approve"
                      => LedgerCount(store', event'.kind, rid) >= 1) ]_vars

\* the form leaves a required text empty or has an amount that is not positive
RequiredTexts == {"FamilyName", "Description", "Event", "RequestedBy"}
FormIncomplete(f) ==
    \/ f.Amount <= 0
    \/ \E fld \in DOMAIN f \cap RequiredTexts : f[fld] = ""

\* C16: submitting a form of any of the three kinds that has a required field
\* empty or an amount that is not positive leaves the whole store as it was.
C16_IncompleteBlocked ==
    [][ (event' # event /\ event'.op \in {"submit", "refused"}
           /\ FormIncomplete(event'.form))
          => store' = store ]_vars

\* C23: for a row on which the year-to-date sum cannot be computed (a month up
\* to the reference month is missing from the row), calculate_current_debt
\* returns 0 and raises nothing, and get_payment_status returns Up-to-date and
\* raises nothing.
C23_FailureFallsBackToZero ==
    ~HasMonthsThrough(arg.row, arg.month) =>
        /\ call = "calculate_current_debt" => result = Fin(0)
        /\ call = "get_payment_status" => result = UpToDate

\* get_payment_status has been called on a row without its JAN cell
C23_Witness ==
    /\ call = "get_payment_status"
    /\ "JAN" \notin DOMAIN arg.row
    /\ result = UpToDate

(***************************************************************************)
(* Claims about _engine (SpecEngine).                                      *)
(***************************************************************************)
Tries == Len(Delays)

\* the probes in the order the claim gives: candidate by candidate, three each
ProbeCandidate(p) == ((p - 1) \div Tries) + 1
ProbeAttempt(p)   == ((p - 1) % Tries) + 1
ProbeResult(p)    == arg.outcome[ProbeCandidate(p)][ProbeAttempt(p)]

\* the probes that do not end with a connection error
EndingProbes ==
    {p \in 1..(Tries * Len(arg.urls)) : ProbeResult(p) # "OperationalError"}

\* C25: _engine probes the candidates in order, each at most three times,
\* sleeping 0.2, 0.4, 0.8 s after the failures; it returns the engine of the
\* first probe that succeeds and probes no further; when every probe failed it
\* raises the error of the last one; it makes at most 3 x (candidates) probes;
\* with no DATABASE_URL it raises without a probe.
C25_EngineProbes ==
    call = "_engine" =>
       LET n == Len(arg.urls)
       IN  /\ result.probes <= Tries * n
           /\ n = 0 => /\ result.k = "raise"
                       /\ result.probes = 0
                       /\ result.error.what = "DATABASE_URL not set"
           /\ (n > 0 /\ EndingProbes = {})
                 => /\ result.k = "raise"
                    /\ result.probes = Tries * n
                    /\ result.error = ProbeError(n, Tries, "OperationalError")
                    /\ Len(result.sleeps) = Tries * n
           /\ EndingProbes # {}
                 => LET p == SetMin(EndingProbes)
                    IN  /\ result.probes = p
                        /\ Len(result.sleeps) = p - 1
                        /\ ProbeResult(p) = "ok"
                              => /\ result.k = "engine"
                                 /\ result.candidate = ProbeCandidate(p)
                                 /\ result.url = arg.urls[ProbeCandidate(p)]
                        /\ ProbeResult(p) = "other" => result.k = "raise"
           /\ \A i \in DOMAIN result.sleeps :
                 result.sleeps[i] = Delays[ProbeAttempt(i)]

\* the first candidate failed three times, the second answered at its second
\* probe although its third would have failed
C25_Witness ==
    /\ call = "_engine"
    /\ result.k = "engine"
    /\ result.candidate = 2
    /\ result.probes = 5
    /\ result.sleeps = <<2, 4, 8, 2>>
    /\ arg.outcome[2][3] = "OperationalError"

(***************************************************************************)
(* Claims about the unreachable database (SpecOffline).                    *)
(***************************************************************************)
\* the rows of a frame of the data dict a script run holds
frame_rows(d, e) ==
    CASE e = "contributions" -> Len(d.contributions)
      [] e = "expenses" -> Len(d.ledger["expense"])
      [] e = "special" -> Len(d.ledger["special"])
      [] e = "expense_requests" -> Len(d.requests["expense"])
      [] e = "special_requests" -> Len(d.requests["special"])
      [] e = "contribution_requests" -> Len(d.requests["contribution"])
      [] OTHER -> offline_rows[e]

\* C17: a load that found the database unreachable holds, for every entity
\* kind, a frame with no rows and with exactly the columns the live load gives.
C17_OfflineShape ==
    (event.op = "load" /\ event.offline)
       => \A e \in Entities :
             /\ frame_rows(data[event.s], e) = 0
             /\ offline_columns[e] = load_all_columns[e]

\* the step ran a handler that calls a write helper
WriteAttempted ==
    event' # event /\ event'.op \in {"submit", "apply", "apply_failed", "write_failed"}

\* C18: while the database is unreachable a handler's write raises 'Write
\* disabled in offline mode' and the store stays as it was; that error is
\* raised only when the database is unreachable.
C18_OfflineWritesRefused ==
    [][ WriteAttempted =>
          /\ ~store_reachable => (store' = store /\ event'.error = WRITE_DISABLED)
          /\ event'.error = WRITE_DISABLED => ~store_reachable ]_vars

(***************************************************************************)
(* Claims about the monthly reminders (SpecReminders).                     *)
(***************************************************************************)
\* C19: every reminder email was sent on day 1 of a month, and no household
\* has been sent two reminders in the same month, whatever the sessions that
\* loaded pages.
C19_OneReminderPerMonth ==
    /\ \A i \in DOMAIN outbox : outbox[i].day = 1
    /\ \A i, j \in DOMAIN outbox :
          (outbox[i].to = outbox[j].to /\ outbox[i].month = outbox[j].month) => i = j

(***************************************************************************)
(* Claims about the treasurer's session (SpecSession).                     *)
(***************************************************************************)
\* the seconds since the session's last correct password entry
SinceLogin(s) == now - last_activity[s].at

\* C20: a script run whose authentication check left the role treasurer is
\* within 1800 s of a correct password entry of that session (so the check
\* that follows a longer silence leaves the role member, and the treasurer
\* sections stay closed until the password is typed again); and the role
\* turns from member to treasurer only in a check in which the correct
\* password was typed.
C20_TimeoutAndLogin ==
    [][ \A s \in Sessions :
          /\ (pc'[s] = "run" /\ auth'[s])
                => (last_activity'[s].set /\ now' - last_activity'[s].at <= SESSION_TIMEOUT)
          /\ (event' # event /\ event'.op \in {"apply", "apply_failed"} /\ event'.s = s)
                => (auth[s] /\ last_activity[s].set /\ SinceLogin(s) <= SESSION_TIMEOUT)
          /\ (auth'[s] /\ ~auth[s])
                => (event'.op = "load" /\ event'.s = s
                      /\ event'.password = TREASURER_PASSWORD) ]_vars

\* a check found the login older than 1800 s and left the role member
C20_Witness ==
    \E s \in Sessions :
       /\ pc[s] = "run"
       /\ event.op = "load" /\ event.s = s
       /\ last_activity[s].set
       /\ SinceLogin(s) > SESSION_TIMEOUT
       /\ ~auth[s]

(***************************************************************************)
(* Claims about what a submission stores (SpecIntake).                     *)
(***************************************************************************)
\* the step is a submission that was accepted
Submitted == event' # event /\ event'.op = "submit"

\* C21: the request row a submission adds (contribution, expense or special,
\* CSV files or database) is new to its table and has the status 'Pending
\* Approval'.
C21_SeededPending ==
    [][ Submitted =>
          LET k == event'.kind
          IN  /\ event'.sel # {}
              /\ \A rid \in event'.sel :
                    /\ ~Known(store, k, rid)
                    /\ Known(store', k, rid)
                    /\ StatusOf(store', k, rid) = Pending ]_vars

\* a contribution request has just been submitted, after a requisition
C21_Witness ==
    /\ event.op = "submit"
    /\ event.kind = "contribution"
    /\ \A rid \in event.sel : Known(store, "contribution", rid)
    /\ \E k \in Kinds, rid \in RequestIds : Known(store, k, rid)

(***************************************************************************)
(* Claims about the cash snapshot (SpecCash).                              *)
(***************************************************************************)
\* C22: after a treasurer's cash save the cash-management table holds one row,
\* with the carried-down balance and the withdrawal of that save, and a read
\* returns those values.
C22_CashSnapshot ==
    [][ (event' # event /\ event'.op = "cash")
          => /\ store'.cash = <<event'.form>>
             /\ fetch_cash_management(store') = event'.form ]_vars

(***************************************************************************)
(* Claims about the approval panels of the pages (SpecPages).              *)
(***************************************************************************)
\* C24: a treasurer's script run that holds pending requests of a kind
\* (contribution, expense or special) is shown the panel that applies Approve
\* or Reject to them.
C24_EveryKindDecidable ==
    \A s \in DeskSessions, k \in RequestKinds :
       (pc[s] = "run" /\ treasurer_section(s) /\ pending_requests(s, k) # {})
          => approval_panel(s, k)

(***************************************************************************)
(* Claims about the two writes of a database approval (SpecOffline).       *)
(***************************************************************************)
\* C26: in the database application, in every reachable state (those left by
\* an approval one of whose writes failed included), an expense or special
\* request has a ledger record exactly when its status is Approve.
C26_LedgerIffApproved ==
    backend = "db" =>
       \A k \in Kinds, rid \in RequestIds :
          Known(store, k, rid)
             => (LedgerCount(store, k, rid) >= 1 <=> StatusOf(store, k, rid) = "Approve")

(***************************************************************************)
(* Claims about concurrent sessions of the CSV application (Spec).         *)
(***************************************************************************)
\* C27: in the CSV application no step discards what is already saved: every
\* stored request stays stored, a decided request keeps its status, and every
\* ledger keeps the rows it has.
C27_NoLostUpdate ==
    [][ backend = "csv" =>
          \A k \in Kinds :
             /\ \A rid \in RequestIds :
                   Known(store, k, rid)
                      => /\ Known(store', k, rid)
                         /\ StatusOf(store, k, rid) \in Terminal
                               => StatusOf(store', k, rid) = StatusOf(store, k, rid)
             /\ Len(store'.ledger[k]) >= Len(store.ledger[k])
             /\ SubSeq(store'.ledger[k], 1, Len(store.ledger[k])) = store.ledger[k] ]_vars

(***************************************************************************)
(* Claims about repeated contribution approvals (SpecDesk).                *)
(***************************************************************************)
\* the request of the batch that is processed last among those of r's family
\* and month
LastFor(reqs, r) ==
    CHOOSE q \in reqs :
       /\ q.FamilyName = r.FamilyName /\ q.Month = r.Month
       /\ \A p \in reqs : (p.FamilyName = r.FamilyName /\ p.Month = r.Month) => p.rid <= q.rid

\* C28: after an approval the slot of the request's month, in a household of
\* the request's family name, holds the request's amount, whatever it held
\* before; when several approved requests name the same household and month
\* the slot holds the amount of the one approved last, not a sum.
C28_SlotReplaced ==
    [][ ContributionApproved =>
          LET old  == store.contributions
              new  == store'.contributions
              reqs == {RowOf(store, "contribution", rid) : rid \in event'.sel}
          IN  \A r \in reqs :
                 (\E i \in DOMAIN old : old[i]["Family Name"].v = r.FamilyName)
                    => \E i \in DOMAIN old :
                          /\ old[i]["Family Name"].v = r.FamilyName
                          /\ new[i][r.Month] = Num(LastFor(reqs, r).Amount) ]_vars

OtherPort(port) ==
    IF port = ":5432/" THEN ":6543/" ELSE IF port = ":6543/" THEN ":5432/" ELSE port

\* DATABASE_URL as candidate i should carry it: unchanged for the first, with
\* the port swapped for the alternate
Expected(raw, i) == IF i = 1 THEN raw ELSE [raw EXCEPT ![7] = OtherPort(raw[7])]

\* c is u, or u followed by a separator and the connection parameters
WithOrWithoutParams(c, u) ==
    \/ c = u
    \/ \E sep \in {"?", "&"} : c = u \o <<sep>> \o ConnParams

\* C30: every candidate keeps the user, password, host, database and query
\* of DATABASE_URL exactly as given, letter case included; the alternate
\* differs from the first in the port only (5432 swapped with 6543); the one
\* other change is the connection parameters, appended when DATABASE_URL has
\* no sslmode and not appended when it has one.
C30_CandidatesKeepUrl ==
    call = "_build_candidate_urls" =>
       \A i \in DOMAIN result :
          LET raw == arg.url
              c   == result[i]
          IN  /\ WithOrWithoutParams(c, Expected(raw, i))
              /\ (\E m \in SslmodeParams : Contains(raw, m)) => c = Expected(raw, i)
              /\ (~ \E m \in SslmodeParams : Contains(lower(raw), m)) => c # Expected(raw, i)

====
